---- MODULE Spec2Model ----
(***************************************************************************)
(* Model of email_bot.py: a Streamlit dashboard that polls a Gmail mailbox *)
(* for unread mail of one sender, drafts a reply with a text model, shows  *)
(* the draft and, when the operator approves, sends it and marks the       *)
(* original read.                                                          *)
(*                                                                         *)
(* Strings are sequences of one-character strings; decoded mail bodies are *)
(* sequences of code points.  One action is one operator event: the script *)
(* run that handles it, together with the immediate rerun it requests.     *)
(***************************************************************************)
EXTENDS Integers, Sequences, FiniteSets, TLC

VARIABLES
    is_monitoring,     \* st.session_state.is_monitoring
    last_check,        \* st.session_state.last_check
    current_email,     \* st.session_state.current_email
    current_response,  \* st.session_state.current_response
    email_history,     \* st.session_state.email_history
    unread,            \* mail provider: ids of the target's messages labelled UNREAD
    sent,              \* mail provider: number of accepted send calls per thread id
    page,              \* widgets rendered by the last script run
    displayed,         \* history entries rendered by the last script run
    calls,             \* send_response in the last event: its provider calls, then its return
    last_gen,          \* the most recent generate_response call and its result
    event,             \* the last event handled
    input,             \* argument of the helper under study (helper specifications)
    output             \* its result

vars == <<is_monitoring, last_check, current_email, current_response,
          email_history, unread, sent, page, displayed, calls, last_gen,
          event, input, output>>

session_vars == <<is_monitoring, last_check, current_email, current_response,
                  email_history, unread, sent, page, displayed, calls, last_gen>>

----------------------------------------------------------------------------
(* Bounds *)

MaxSubjectLen == 4      \* longest subject given to sanitize_subject
MaxParts == 2           \* most parts of a multipart payload
MaxHistLen == 3         \* longest history given to the history display
MaxConfigured == 3      \* largest configured max_history
MaxSends == 2           \* accepted send calls per thread before the model stops sending

----------------------------------------------------------------------------
(* Values *)

None == [none |-> TRUE]         \* Python's None where a dict or a timestamp may stand
NoneStr == <<"None">>           \* Python's None where a string may stand
Absent == [absent |-> TRUE]     \* a dict key that is not there
AbsentStr == <<"Absent">>       \* the same, for a key holding a string

(* what a block of code produces: a value, or an exception *)
Returns(v) == [raised |-> FALSE, value |-> v]
Raised == [raised |-> TRUE, value |-> <<>>]

RECURSIVE SeqsUpTo(_, _)
SeqsUpTo(S, n) ==
    IF n = 0 THEN {<<>>}
    ELSE LET shorter == SeqsUpTo(S, n - 1)
         IN  shorter \cup {Append(s, c) : s \in shorter, c \in S}

Reverse(s) == [i \in 1..Len(s) |-> s[Len(s) + 1 - i]]

----------------------------------------------------------------------------
(* str.lower() and str.startswith() on the characters the model uses *)

LowerChar(c) ==
    CASE c = "R" -> "r"
      [] c = "E" -> "e"
      [] c = "F" -> "f"
      [] c = "K" -> "k"
      [] c = "L" -> "l"
      [] c = "B" -> "b"
      [] c = "X" -> "x"
      [] OTHER -> c

Lower(s) == [i \in 1..Len(s) |-> LowerChar(s[i])]

StartsWith(s, prefix) ==
    /\ Len(s) >= Len(prefix)
    /\ SubSeq(s, 1, Len(prefix)) = prefix

(* sanitize_subject with the prefix test dropped *)
sanitize_subject_always(subject) == <<"R", "e", ":", " ">> \o subject

sanitize_subject(subject) ==
    IF StartsWith(Lower(subject), <<"r", "e", ":">>)
    THEN subject
    ELSE <<"R", "e", ":", " ">> \o subject

----------------------------------------------------------------------------
(* base64.urlsafe_b64decode(...).decode('utf-8', errors='replace')         *)

B64Value(c) ==
    CASE c = "A" -> 0
      [] c = "B" -> 1
      [] c = "F" -> 5
      [] c = "Q" -> 16
      [] c = "U" -> 20
      [] c = "g" -> 32
      [] OTHER -> 64      \* not in the base64 alphabet

(* binascii.a2b_base64, non-strict: characters outside the alphabet are    *)
(* skipped, a complete pad sequence ends the input, and leftover data in   *)
(* an unfinished quad raises.                                              *)
RECURSIVE a2b_base64(_, _, _, _, _, _)
a2b_base64(s, i, quad_pos, leftchar, pads, out) ==
    IF i > Len(s)
    THEN IF quad_pos # 0 THEN Raised ELSE Returns(out)
    ELSE IF s[i] = "="
    THEN IF quad_pos >= 2 /\ quad_pos + pads + 1 >= 4
         THEN Returns(out)
         ELSE a2b_base64(s, i + 1, quad_pos, leftchar,
                         IF quad_pos >= 2 THEN pads + 1 ELSE pads, out)
    ELSE LET v == B64Value(s[i]) IN
         IF v >= 64
         THEN a2b_base64(s, i + 1, quad_pos, leftchar, pads, out)
         ELSE CASE quad_pos = 0 ->
                   a2b_base64(s, i + 1, 1, v, 0, out)
                [] quad_pos = 1 ->
                   a2b_base64(s, i + 1, 2, v % 16, 0,
                              Append(out, leftchar * 4 + v \div 16))
                [] quad_pos = 2 ->
                   a2b_base64(s, i + 1, 3, v % 4, 0,
                              Append(out, leftchar * 16 + v \div 4))
                [] OTHER ->
                   a2b_base64(s, i + 1, 0, 0, 0,
                              Append(out, leftchar * 64 + v))

b64decode(encoded_data) == a2b_base64(encoded_data, 1, 0, 0, 0, <<>>)

(* bytes.decode('utf-8', errors='replace').  The bytes the model's alphabet *)
(* produces are ASCII or the lone continuation bytes 0x80..0x82, each of    *)
(* which becomes U+FFFD.                                                    *)
utf8_replace(bytes) ==
    [i \in 1..Len(bytes) |-> IF bytes[i] < 128 THEN bytes[i] ELSE 65533]

parse_base64_content(encoded_data) ==
    LET raw == b64decode(encoded_data)
    IN  IF raw.raised THEN <<>> ELSE utf8_replace(raw.value)

----------------------------------------------------------------------------
(* EmailBot.get_email_content on the message the provider returned         *)

(* dict.get('data', '') *)
DataOf(body) == IF body.data = AbsentStr THEN <<>> ELSE body.data

(* part['body'].get('data', '') decoded; KeyError when the part has no body *)
PartContent(part) ==
    IF part.body = Absent THEN Raised
    ELSE Returns(parse_base64_content(DataOf(part.body)))

(* for part in parts: if part.get('mimeType') == mime: return ...          *)
(* The index of the part the loop returns from, 0 when it runs through.    *)
RECURSIVE ScanParts(_, _, _)
ScanParts(parts, mime, i) ==
    IF i > Len(parts) THEN 0
    ELSE IF parts[i].mimeType = mime THEN i
    ELSE ScanParts(parts, mime, i + 1)

(* the try block taking the first text part of either kind *)
get_email_content_try_first_text(message) ==
    IF message = Raised THEN Raised
    ELSE IF message.payload = Absent THEN Returns(<<>>)
    ELSE LET parts == message.payload.parts
             plain == ScanParts(parts, "text/plain", 1)
             html == ScanParts(parts, "text/html", 1)
             first == IF plain = 0 THEN html
                      ELSE IF html = 0 THEN plain
                      ELSE IF plain < html THEN plain ELSE html
         IN  IF parts # <<>>
             THEN IF first # 0 THEN PartContent(parts[first])
                  ELSE Returns(<<>>)
             ELSE IF message.payload.body # Absent
             THEN Returns(parse_base64_content(DataOf(message.payload.body)))
             ELSE Returns(<<>>)

(* the body of the try block: the value returned, or Raised *)
get_email_content_try(message) ==
    IF message = Raised THEN Raised                  \* messages().get() failed
    ELSE IF message.payload = Absent THEN Returns(<<>>)
    ELSE LET parts == message.payload.parts
             plain == ScanParts(parts, "text/plain", 1)
             html == ScanParts(parts, "text/html", 1)
         IN  IF parts # <<>>
             THEN IF plain # 0 THEN PartContent(parts[plain])
                  ELSE IF html # 0 THEN PartContent(parts[html])
                  ELSE Returns(<<>>)
             ELSE IF message.payload.body # Absent
             THEN Returns(parse_base64_content(DataOf(message.payload.body)))
             ELSE Returns(<<>>)

(* except Exception: return "" *)
get_email_content(message) ==
    LET r == get_email_content_try(message)
    IN  IF r.raised THEN Returns(<<>>) ELSE r

----------------------------------------------------------------------------
(* The history panel: reversed(email_history[-max_history:])               *)

(* Python's seq[-n:] for any integer n: -0 is 0, so seq[-0:] is seq[0:] *)
SliceFrom(s, start) ==
    LET len == Len(s)
        from == IF start < 0 THEN (IF len + start < 0 THEN 0 ELSE len + start)
                ELSE (IF start > len THEN len ELSE start)
    IN  SubSeq(s, from + 1, len)

history_display(history, max_history) ==
    Reverse(SliceFrom(history, 0 - max_history))

----------------------------------------------------------------------------
(* The mailbox of the session specification *)

MsgIds == {"m1", "m2"}

TargetEmail == "target"         \* st.secrets["gmail_target"]

Header(name, value) == [name |-> name, value |-> value]

Part(mime, data) == [mimeType |-> mime, body |-> [data |-> data]]

(* m1: multipart, the html part first; m2: single part, subject already a reply *)
Mailbox ==
    [m \in MsgIds |->
        IF m = "m1"
        THEN [payload |->
                [headers |-> <<Header("From", <<"t">>),
                               Header("Subject", <<"x">>)>>,
                 parts |-> <<Part("text/html", <<"Q", "U", "F", "B">>),
                             Part("text/plain", <<"Q", "Q", "=", "=">>)>>,
                 body |-> [data |-> AbsentStr]]]
        ELSE [payload |->
                [headers |-> <<Header("SUBJECT", <<"R", "E", ":", "x">>),
                               Header("Date", <<"d">>)>>,
                 parts |-> <<>>,
                 body |-> [data |-> <<"g", "A", "=", "=">>]]]]

LowerName(name) ==
    CASE name = "Subject" -> "subject"
      [] name = "SUBJECT" -> "subject"
      [] name = "Date" -> "date"
      [] name = "From" -> "from"
      [] OTHER -> name

(* next((h['value'] for h in headers if h['name'].lower() == name), default) *)
RECURSIVE HeaderValue(_, _, _, _)
HeaderValue(headers, name, default, i) ==
    IF i > Len(headers) THEN default
    ELSE IF LowerName(headers[i].name) = name THEN headers[i].value
    ELSE HeaderValue(headers, name, default, i + 1)

KeinBetreff == <<"K", "e", "i", "n", " ", "B", "e", "t", "r", "e", "f", "f">>
KeinDatum == <<"K", "e", "i", "n", " ", "D", "a", "t", "u", "m">>
UnbekannterAbsender ==
    <<"U", "n", "b", "e", "k", "a", "n", "n", "t", "e", "r", " ",
      "A", "b", "s", "e", "n", "d", "e", "r">>
KeineBetreffzeile ==
    <<"K", "e", "i", "n", "e", " ", "B", "e", "t", "r", "e", "f", "f",
      "z", "e", "i", "l", "e">>
FehlerBetreff ==
    <<"F", "e", "h", "l", "e", "r", " ", "b", "e", "i", "m", " ",
      "L", "e", "s", "e", "n", " ", "d", "e", "s", " ",
      "B", "e", "t", "r", "e", "f", "f", "s">>

(* get_email_details: None when the get call fails; the content is fetched *)
(* by a second get call, whose failure leaves the content empty.           *)
get_email_details(msg_id, get_ok, content_ok) ==
    IF ~get_ok THEN None
    ELSE LET headers == Mailbox[msg_id].payload.headers IN
         [id |-> msg_id,
          subject |-> HeaderValue(headers, "subject", KeinBetreff, 1),
          date |-> HeaderValue(headers, "date", KeinDatum, 1),
          from |-> HeaderValue(headers, "from", UnbekannterAbsender, 1),
          content |-> get_email_content(
                        IF content_ok THEN Mailbox[msg_id] ELSE Raised).value]

(* get_subject: the error text is returned as the subject when the call fails *)
get_subject(msg_id, get_ok) ==
    IF get_ok
    THEN HeaderValue(Mailbox[msg_id].payload.headers, "subject",
                     KeineBetreffzeile, 1)
    ELSE FehlerBetreff

----------------------------------------------------------------------------
(* The draft generator *)

(* what completions.create returns: a completion text, or it raises *)
Completions == {<<"a", " ">>, <<" ", "b">>, <<" ">>}

GenOutcomes == {Raised} \cup {Returns(c) : c \in Completions}

(* str.strip() *)
RECURSIVE LStrip(_)
LStrip(s) == IF s # <<>> /\ Head(s) = " " THEN LStrip(Tail(s)) ELSE s

Strip(s) == Reverse(LStrip(Reverse(LStrip(s))))

(* generate_response returning the error text instead of "" *)
generate_response_error_text(email_content, outcome) ==
    IF outcome.raised THEN <<"F", "e", "h", "l", "e", "r">>
    ELSE Strip(outcome.value)

generate_response(email_content, outcome) ==
    IF outcome.raised THEN <<>> ELSE Strip(outcome.value)

----------------------------------------------------------------------------
(* EmailBot.send_response.  o.subject, o.send and o.modify say whether the  *)
(* provider's get, send and modify calls succeed.  The result holds the     *)
(* provider calls made, ending with the value returned, and what the        *)
(* provider did.                                                            *)

GetCall(msg_id, ok) == [op |-> "get", id |-> msg_id, ok |-> ok]

SendCall(msg_id, subject, text, ok) ==
    [op |-> "send", threadId |-> msg_id, to |-> TargetEmail,
     subject |-> subject, body |-> text, ok |-> ok]

ModifyCall(msg_id, ok) == [op |-> "modify", id |-> msg_id, ok |-> ok]

Return(value) == [op |-> "return", value |-> value]

SendOutcomes == [subject : BOOLEAN, send : BOOLEAN, modify : BOOLEAN]

(* send_response returning True as soon as the send call went through *)
send_response_ignore_modify(msg_id, response_text, o) ==
    LET final_subject == sanitize_subject(get_subject(msg_id, o.subject))
        first == <<GetCall(msg_id, o.subject),
                   SendCall(msg_id, final_subject, response_text, o.send)>>
    IN  IF ~o.send
        THEN [calls |-> Append(first, Return(FALSE)),
              accepted |-> FALSE, marked_read |-> FALSE]
        ELSE [calls |-> first \o <<ModifyCall(msg_id, o.modify), Return(TRUE)>>,
              accepted |-> TRUE, marked_read |-> o.modify]

send_response(msg_id, response_text, o) ==
    LET final_subject == sanitize_subject(get_subject(msg_id, o.subject))
        first == <<GetCall(msg_id, o.subject),
                   SendCall(msg_id, final_subject, response_text, o.send)>>
    IN  IF ~o.send
        THEN [calls |-> Append(first, Return(FALSE)),
              accepted |-> FALSE, marked_read |-> FALSE]
        ELSE [calls |-> first \o <<ModifyCall(msg_id, o.modify), Return(o.modify)>>,
              accepted |-> TRUE, marked_read |-> o.modify]

----------------------------------------------------------------------------
(* main(): the session.  A script run executes main() top to bottom; a run  *)
(* that calls st.experimental_rerun() stops there and a fresh run follows.  *)

max_history == 5        \* st.secrets.get("config", {}).get("max_history", 5)

Now == [time |-> "now"] \* datetime.now()

(* the response panel's condition *)
PanelShown_email_only(email, response) == email # None

PanelShown(email, response) ==
    email # None /\ response # NoneStr /\ response # <<>>

(* st.session_state.current_email = email_details, and a version keeping *)
(* an earlier selection                                                   *)
SelectEmail_keep(old, email_details) ==
    IF old = None THEN email_details ELSE old

SelectEmail(old, email_details) == email_details

(* the send button's handler once send_response has returned: on success *)
(* the exchange is appended to the history and the selection is cleared   *)
HistoryEntry(email, response) ==
    [time |-> Now, email |-> email, response |-> response]

(* ... clearing the selection whether or not the send went through *)
AfterSend_clear_always(success, email, response, history) ==
    [email |-> None, response |-> NoneStr,
     history |-> IF success
                 THEN Append(history, HistoryEntry(email, response))
                 ELSE history]

(* ... putting the new entry in front *)
AfterSend_prepend(success, email, response, history) ==
    IF success
    THEN [email |-> None, response |-> NoneStr,
          history |-> <<HistoryEntry(email, response)>> \o history]
    ELSE [email |-> email, response |-> response, history |-> history]

AfterSend(success, email, response, history) ==
    IF success
    THEN [email |-> None, response |-> NoneStr,
          history |-> Append(history, HistoryEntry(email, response))]
    ELSE [email |-> email, response |-> response, history |-> history]

(* what a poll cycle asks of the provider: whether the list call succeeds, *)
(* and for each message whether its details and its content can be read    *)
PollOutcomes == [list : BOOLEAN, details : [MsgIds -> {"ok", "nocontent", "fail"}]]

(* get_unread_emails, then get_email_details per message: the emails rendered *)
Listed(p) ==
    IF p.list THEN {m \in unread : p.details[m] # "fail"} ELSE {}

(* a run with monitoring on: it renders the stop button and one generate   *)
(* button per email, stamps last_check, sleeps and reruns; the right        *)
(* column is not reached                                                    *)
PollRun(p) ==
    /\ page' = {"stop"} \cup Listed(p)
    /\ displayed' = <<>>
    /\ last_check' = Now

(* a run with monitoring off: the start button, the response panel when a  *)
(* draft is pending, and the history                                        *)
PausedRun(email, response, history) ==
    /\ page' = {"start"} \cup
               (IF PanelShown(email, response) THEN {"send", "regenerate"} ELSE {})
    /\ displayed' = IF history # <<>>
                    THEN history_display(history, max_history)
                    ELSE <<>>

SessionInit ==
    /\ is_monitoring = FALSE
    /\ last_check = None
    /\ current_email = None
    /\ current_response = NoneStr
    /\ email_history = <<>>
    /\ unread = MsgIds
    /\ sent = [m \in MsgIds |-> 0]
    /\ page = {"start"}
    /\ displayed = <<>>
    /\ calls = <<>>
    /\ last_gen = None

Init ==
    /\ SessionInit
    /\ event = "init"
    /\ input = <<>>
    /\ output = <<>>

(* "Monitoring starten": the flag is set and the rerun is a poll cycle *)
StartMonitoring ==
    /\ "start" \in page
    /\ ~is_monitoring
    /\ is_monitoring' = TRUE
    /\ \E p \in PollOutcomes : PollRun(p)
    /\ calls' = <<>>
    /\ event' = "start"
    /\ UNCHANGED <<current_email, current_response, email_history, unread,
                   sent, last_gen, input, output>>

(* "Monitoring stoppen": the flag is cleared and the rerun renders paused *)
StopMonitoring ==
    /\ "stop" \in page
    /\ is_monitoring
    /\ is_monitoring' = FALSE
    /\ PausedRun(current_email, current_response, email_history)
    /\ calls' = <<>>
    /\ event' = "stop"
    /\ UNCHANGED <<last_check, current_email, current_response, email_history,
                   unread, sent, last_gen, input, output>>

(* the sleep ends and the script reruns with monitoring on *)
PollCycle ==
    /\ is_monitoring
    /\ \E p \in PollOutcomes : PollRun(p)
    /\ calls' = <<>>
    /\ event' = "poll"
    /\ UNCHANGED <<is_monitoring, current_email, current_response,
                   email_history, unread, sent, last_gen, input, output>>

(* "Antwort generieren" for email m: the click is handled by the next poll *)
(* run, if that run renders the button again; the rerun is a poll cycle     *)
Generate(m) ==
    /\ m \in page
    /\ is_monitoring
    /\ \E p \in PollOutcomes, outcome \in GenOutcomes :
          /\ m \in Listed(p)
          /\ LET email_details ==
                     get_email_details(m, TRUE, p.details[m] = "ok")
                 response ==
                     generate_response(email_details.content, outcome)
             IN  /\ current_email' = SelectEmail(current_email, email_details)
                 /\ current_response' = response
                 /\ last_gen' = [id |-> m,
                                 content |-> email_details.content,
                                 failed |-> outcome.raised,
                                 result |-> response]
    /\ \E p \in PollOutcomes : PollRun(p)
    /\ calls' = <<>>
    /\ event' = "generate"
    /\ UNCHANGED <<is_monitoring, email_history, unread, sent, input, output>>

(* "Antwort senden" *)
Send ==
    /\ "send" \in page
    /\ ~is_monitoring
    /\ PanelShown(current_email, current_response)
    /\ sent[current_email.id] < MaxSends
    /\ \E o \in SendOutcomes :
          LET r == send_response(current_email.id, current_response, o)
              id == current_email.id
              success == r.calls[Len(r.calls)].value
              after == AfterSend(success, current_email, current_response,
                                 email_history)
          IN  /\ calls' = r.calls
              /\ sent' = IF r.accepted THEN [sent EXCEPT ![id] = @ + 1] ELSE sent
              /\ unread' = IF r.marked_read THEN unread \ {id} ELSE unread
              /\ current_email' = after.email
              /\ current_response' = after.response
              /\ email_history' = after.history
    /\ PausedRun(current_email', current_response', email_history')
    /\ event' = "send"
    /\ UNCHANGED <<is_monitoring, last_check, last_gen, input, output>>

(* "Neue Antwort generieren" *)
Regenerate ==
    /\ "regenerate" \in page
    /\ ~is_monitoring
    /\ PanelShown(current_email, current_response)
    /\ \E outcome \in GenOutcomes :
          LET response == generate_response(current_email.content, outcome)
          IN  /\ current_response' = response
              /\ last_gen' = [id |-> current_email.id,
                              content |-> current_email.content,
                              failed |-> outcome.raised,
                              result |-> response]
    /\ PausedRun(current_email, current_response', email_history)
    /\ calls' = <<>>
    /\ event' = "regenerate"
    /\ UNCHANGED <<is_monitoring, last_check, current_email, email_history,
                   unread, sent, input, output>>

Next ==
    \/ StartMonitoring
    \/ StopMonitoring
    \/ PollCycle
    \/ \E m \in MsgIds : Generate(m)
    \/ Send
    \/ Regenerate

Spec == Init /\ [][Next]_vars

----------------------------------------------------------------------------
(* sanitize_subject over every short subject, applied once and once more *)

SubjectChars == {"R", "r", "E", "e", ":", " ", "x"}

Subjects == SeqsUpTo(SubjectChars, MaxSubjectLen)

InitSubject ==
    /\ SessionInit
    /\ event = "init"
    /\ input \in Subjects
    /\ output = <<>>

Sanitize ==
    /\ event = "init"
    /\ output' = sanitize_subject(input)
    /\ event' = "sanitize"
    /\ UNCHANGED <<input, session_vars>>

(* the result is given to sanitize_subject again *)
SanitizeAgain ==
    /\ event = "sanitize"
    /\ input' = output
    /\ output' = sanitize_subject(output)
    /\ event' = "sanitize_again"
    /\ UNCHANGED session_vars

NextSubject == Sanitize \/ SanitizeAgain

SpecSubject == InitSubject /\ [][NextSubject]_vars

----------------------------------------------------------------------------
(* get_email_content over small payloads *)

BodyData ==
    {AbsentStr,
     <<>>,
     <<"Q", "Q", "=", "=">>,            \* "A"
     <<"Q", "U", "F", "B">>,            \* "AAA"
     <<"g", "A", "=", "=">>,            \* a byte that is not UTF-8
     <<"Q", "!", "Q", "=", "=">>,       \* a character outside the alphabet
     <<"Q", "Q">>,                      \* incorrect padding
     <<"Q">>}                           \* one data character

Bodies == {Absent} \cup {[data |-> d] : d \in BodyData}

MimeTypes == {"text/plain", "text/html", "application/pdf"}

Parts == [mimeType : MimeTypes, body : Bodies]

Messages ==
    {Raised, [payload |-> Absent]}
    \cup {[payload |-> [parts |-> <<>>, body |-> b]] : b \in Bodies}
    \cup {[payload |-> [parts |-> ps, body |-> [data |-> AbsentStr]]] :
            ps \in SeqsUpTo(Parts, MaxParts) \ {<<>>}}

InitBody ==
    /\ SessionInit
    /\ event = "init"
    /\ input \in Messages
    /\ output = <<>>

ExtractBody ==
    /\ event = "init"
    /\ output' = get_email_content(input)
    /\ event' = "extract"
    /\ UNCHANGED <<input, session_vars>>

NextBody == ExtractBody

SpecBody == InitBody /\ [][NextBody]_vars

----------------------------------------------------------------------------
(* the history panel over short histories and small configured maxima *)

Entries == {"e1", "e2", "e3"}

InitHistory ==
    /\ SessionInit
    /\ event = "init"
    /\ input \in [history : SeqsUpTo(Entries, MaxHistLen),
                  max_history : 0..MaxConfigured]
    /\ output = <<>>

RenderHistory ==
    /\ event = "init"
    /\ output' = history_display(input.history, input.max_history)
    /\ event' = "render"
    /\ UNCHANGED <<input, session_vars>>

NextHistory == RenderHistory

SpecHistory == InitHistory /\ [][NextHistory]_vars

----------------------------------------------------------------------------
(* Properties of the session (specification Spec) *)

(* the last event was a click on "Antwort senden" *)
SendHandled == event = "send"

(* what send_response returned in the last event *)
Returned(trace) == trace[Len(trace)].value

(* the draft is a non-empty text *)
HasDraft(response) == response # NoneStr /\ response # <<>>

(* C1: when the operator sends and send_response returns true, afterwards   *)
(* current_email and current_response are None and email_history is the     *)
(* previous history with exactly one entry appended, holding the email that *)
(* was selected and the draft that was passed to send_response.             *)
C1_SuccessfulSendArchives ==
    [][(SendHandled' /\ Returned(calls'))
         => /\ current_email' = None
            /\ current_response' = NoneStr
            /\ Len(email_history') = Len(email_history) + 1
            /\ SubSeq(email_history', 1, Len(email_history)) = email_history
            /\ email_history'[Len(email_history')].email = current_email
            /\ email_history'[Len(email_history')].response = current_response
            /\ calls'[2].body = current_response
            /\ calls'[2].threadId = current_email.id]_vars

C1_Witness ==
    /\ SendHandled
    /\ Returned(calls)
    /\ Len(email_history) = 2
    /\ email_history[1].email.id # email_history[2].email.id

(* C2: when the operator sends and send_response returns false, the email,  *)
(* the draft and the history keep their values and the send and regenerate  *)
(* buttons are rendered again for the same email.                           *)
C2_FailedSendKeepsReview ==
    [][(SendHandled' /\ ~Returned(calls'))
         => /\ current_email' = current_email
            /\ current_response' = current_response
            /\ email_history' = email_history
            /\ PanelShown(current_email', current_response')
            /\ {"send", "regenerate"} \subseteq page']_vars

C2_Witness ==
    /\ SendHandled
    /\ ~Returned(calls)
    /\ ~calls[2].ok
    /\ "send" \in page
    /\ HasDraft(current_response)

(* C3: send_response makes its provider calls in the order get (subject),   *)
(* send, modify; a call that fails is the last one made and the function    *)
(* then returns false.                                                      *)
C3_FirstFailureStops ==
    SendHandled =>
        LET n == Len(calls) - 1     \* the provider calls; calls[n + 1] is the return
        IN  /\ n \in 1..3
            /\ \A i \in 1..n : calls[i].op = <<"get", "send", "modify">>[i]
            /\ \A i \in 1..n : ~calls[i].ok => (i = n /\ ~Returned(calls))
            /\ Returned(calls) => n = 3

(* C4: the send button is rendered only with an email selected and a        *)
(* non-empty draft; after a generation call that failed the draft is empty, *)
(* the send button is not rendered and no send is handled, until another    *)
(* generation call is made.                                                 *)
C4_NoSendWithoutDraft ==
    /\ "send" \in page => (current_email # None /\ HasDraft(current_response))
    /\ SendHandled => (last_gen # None /\ ~last_gen.failed)
    /\ (last_gen # None /\ last_gen.failed)
          => /\ current_response = <<>>
             /\ "send" \notin page

C4_Witness ==
    /\ event = "regenerate"
    /\ last_gen.failed
    /\ current_email # None
    /\ ~is_monitoring

(* C8: when within one send the provider accepts the send call and the      *)
(* modify call fails, send_response returns false, the message is still     *)
(* unread, the draft stays pending with the send button rendered, and the   *)
(* provider has accepted one more send for that thread.                     *)
C8_PartialFailureAllowsResend ==
    [][(SendHandled' /\ calls'[2].ok /\ ~calls'[3].ok)
         => /\ ~Returned(calls')
            /\ calls'[3].id \in unread'
            /\ current_email' = current_email
            /\ current_response' = current_response
            /\ calls'[3].id = current_email.id
            /\ "send" \in page'
            /\ sent'[current_email.id] = sent[current_email.id] + 1]_vars

(* the provider has accepted two sends for one message, which is listed again *)
C8_Witness ==
    \E m \in MsgIds : sent[m] >= 2 /\ m \in unread /\ m \in page

(* C9: while monitoring is on and a draft is pending, the response panel    *)
(* with its send and regenerate buttons is rendered.                        *)
C9_ReviewWhileMonitoring ==
    (is_monitoring /\ PanelShown(current_email, current_response))
        => {"send", "regenerate"} \subseteq page

(* C10: a non-empty draft comes with a selected email and is the result of  *)
(* the most recent generation call, which was made on that email's content; *)
(* a send carries that email's id and that draft.                           *)
C10_DraftBelongsToEmail ==
    /\ HasDraft(current_response)
          => /\ current_email # None
             /\ last_gen # None
             /\ last_gen.id = current_email.id
             /\ last_gen.content = current_email.content
             /\ last_gen.result = current_response
    /\ SendHandled
          => /\ calls[1].id = last_gen.id
             /\ calls[2].threadId = last_gen.id
             /\ calls[2].body = last_gen.result

C10_Witness ==
    /\ SendHandled
    /\ calls[2].ok
    /\ calls[2].threadId = "m2"
    /\ sent["m1"] > 0
    /\ Len(email_history) = 1

----------------------------------------------------------------------------
(* Properties of the helpers *)

HasRePrefix(s) ==
    /\ Len(s) >= 3
    /\ s[1] \in {"r", "R"}
    /\ s[2] \in {"e", "E"}
    /\ s[3] = ":"

(* C5 (SpecSubject): a subject starting with "re:" in any letter case is    *)
(* returned unchanged, any other subject s is returned as "Re: " then s,    *)
(* and sanitizing the result again changes nothing.                         *)
C5_SubjectPrefixIdempotent ==
    /\ event = "sanitize"
          => output = IF HasRePrefix(input) THEN input
                      ELSE <<"R", "e", ":", " ">> \o input
    /\ event = "sanitize_again" => output = input

C5_Witness ==
    /\ event = "sanitize_again"
    /\ output = <<"R", "e", ":", " ", "x", "R", "E", ":">>

(* C6 (SpecHistory): for a configured max_history N >= 0 the entries        *)
(* rendered are the min(N, length) most recently appended ones, newest      *)
(* first.                                                                   *)
C6_HistoryDisplayBounded ==
    event = "render" =>
        LET h == input.history
            k == IF input.max_history < Len(h) THEN input.max_history ELSE Len(h)
        IN  /\ Len(output) = k
            /\ \A i \in 1..k : output[i] = h[Len(h) + 1 - i]

(* the decoded body of a part or payload: empty when the data is empty,     *)
(* absent or does not decode                                                *)
DecodedBody(holder) ==
    IF holder.body = Absent THEN <<>>
    ELSE IF holder.body.data = AbsentStr \/ holder.body.data = <<>> THEN <<>>
    ELSE IF b64decode(holder.body.data).raised THEN <<>>
    ELSE utf8_replace(b64decode(holder.body.data).value)

FirstIndex(parts, mime) ==
    CHOOSE i \in 1..Len(parts) :
        /\ parts[i].mimeType = mime
        /\ \A j \in 1..(i - 1) : parts[j].mimeType # mime

HasPart(parts, mime) == \E i \in 1..Len(parts) : parts[i].mimeType = mime

(* C7 (SpecBody): get_email_content does not raise; of a multipart payload  *)
(* it returns the decoded body of the first text/plain part wherever that   *)
(* part sits, else of the first text/html part; of a single-part payload    *)
(* its decoded body.                                                        *)
C7_BodyExtractionPolicy ==
    event = "extract" =>
        /\ ~output.raised
        /\ (input # Raised /\ input.payload # Absent) =>
              LET parts == input.payload.parts IN
              /\ (parts # <<>> /\ HasPart(parts, "text/plain"))
                    => output.value =
                         DecodedBody(parts[FirstIndex(parts, "text/plain")])
              /\ (parts # <<>> /\ ~HasPart(parts, "text/plain")
                               /\ HasPart(parts, "text/html"))
                    => output.value =
                         DecodedBody(parts[FirstIndex(parts, "text/html")])
              /\ parts = <<>> => output.value = DecodedBody(input.payload)

C7_Witness ==
    /\ event = "extract"
    /\ input # Raised
    /\ input.payload # Absent
    /\ Len(input.payload.parts) = 2
    /\ input.payload.parts[1] = Part("text/html", <<"Q", "U", "F", "B">>)
    /\ input.payload.parts[2] = Part("text/plain", <<"Q", "Q", "=", "=">>)
    /\ output = Returns(<<65>>)

====
